---- MODULE Spec2Model ----
(***************************************************************************)
(* Glass / sheet stock optimizer (src/app.py).                             *)
(*                                                                         *)
(* The application is a Streamlit script: every click reruns the script    *)
(* from top to bottom against st.session_state.cut_list.  One action of    *)
(* this module is one click (one script run); the "Calculate Optimization" *)
(* run is cut into the steps of rectpack's pack() loop so that the states  *)
(* in the middle of a packing run can be inspected.                        *)
(*                                                                         *)
(* The packing engine is the rectpack packer that solve_packing builds:    *)
(* newPacker(mode=Offline, rotation=True), i.e. bin_algo = BBF (best bin   *)
(* fit), pack_algo = MaxRectsBssf, sort_algo = SORT_AREA, with 100 bins    *)
(* of SHEET_W x SHEET_H.  Dimensions are modelled as integers.             *)
(***************************************************************************)
EXTENDS Integers, Sequences, FiniteSets, TLC

VARIABLES sheet_w, sheet_h, cut_list, imported, pc, err, packer, result

vars == <<sheet_w, sheet_h, cut_list, imported, pc, err, packer, result>>

-----------------------------------------------------------------------------
(* Bounds of the model *)

\* longest cut list the model lets the session hold
MaxCuts == 3
\* most lines in an uploaded file
MaxLines == 2
\* largest Quantity typed into the manual form
MaxQty == 2
\* how far around NUM_BINS the length of a bulk cut list ranges
Slack == 1

\* range(100) of solve_packing: the bins handed to the packer
NUM_BINS == 100

\* solve_packing passes rotation=True to newPacker
ROTATION == TRUE

\* sheet sizes the sidebar is set to: the default 72 x 84 and a smaller one
\* (the manual form's default value 24.0 needs sheet_h >= 24)
SheetSizes == {<<72, 84>>, <<60, 36>>}

\* values typed into the manual form's Width and Height inputs
ManualDims == {24, 36, 60}

-----------------------------------------------------------------------------
(* Small helpers *)

Min(a, b) == IF a <= b THEN a ELSE b

\* sum of a sequence of numbers, halving so that long sequences stay shallow
RECURSIVE SumSeq(_)
SumSeq(s) ==
    IF s = <<>> THEN 0
    ELSE IF Len(s) = 1 THEN s[1]
    ELSE LET half == Len(s) \div 2
         IN  SumSeq(SubSeq(s, 1, half)) + SumSeq(SubSeq(s, half + 1, Len(s)))

\* n appends of x: "for _ in range(n): append(x)"; range(n) is empty for n <= 0
Repeat(x, n) == [i \in 1..n |-> x]

RECURSIVE Concat(_)
Concat(ss) == IF ss = <<>> THEN <<>> ELSE Head(ss) \o Concat(Tail(ss))

-----------------------------------------------------------------------------
(* rectpack geometry: Rectangle *)

Rectangle(x, y, w, h) == [x |-> x, y |-> y, width |-> w, height |-> h]

Left(r)   == r.x
Right(r)  == r.x + r.width
Bottom(r) == r.y
Top(r)    == r.y + r.height

\* Rectangle.intersects(rect, edges=False): touching edges do not count
intersects(a, b) ==
    ~ (Bottom(a) >= Top(b) \/ Top(a) <= Bottom(b)
         \/ Left(a) >= Right(b) \/ Right(a) <= Left(b))

\* Rectangle.contains(rect)
contains(a, b) ==
    /\ b.y >= a.y
    /\ b.x >= a.x
    /\ b.y + b.height <= a.y + a.height
    /\ b.x + b.width <= a.x + a.width

\* area of the intersection of two rectangles
OverlapArea(a, b) ==
    LET lo(p, q) == IF p >= q THEN p ELSE q
        ox == Min(Right(a), Right(b)) - lo(Left(a), Left(b))
        oy == Min(Top(a), Top(b)) - lo(Bottom(a), Bottom(b))
    IN  IF ox > 0 /\ oy > 0 THEN ox * oy ELSE 0

-----------------------------------------------------------------------------
(* rectpack MaxRectsBssf: one bin *)

\* a bin is [width, height, rot, rectangles, max_rects]
\* MaxRects.reset(): a single free rectangle spanning the sheet
EmptyBin(W, H, rot) ==
    [width |-> W, height |-> H, rot |-> rot, rectangles |-> <<>>,
     max_rects |-> << Rectangle(0, 0, W, H) >>]

\* faulty variant of NoFit: the height is not compared
NoFit_width_only(m, w, h) == w > m.width

\* MaxRectsBssf._rect_fitness is None
NoFit(m, w, h) == w > m.width \/ h > m.height

\* MaxRectsBssf._rect_fitness when it is not None
rect_fitness(m, w, h) == Min(m.width - w, m.height - h)

\* the generator ((fitness, w, h, m) for m in max_rects if fitness is not None)
Candidates(max_rects, w, h) ==
    SelectSeq([i \in 1..Len(max_rects) |->
                  [fit |-> rect_fitness(max_rects[i], w, h), w |-> w, h |-> h,
                   m |-> max_rects[i], ok |-> ~NoFit(max_rects[i], w, h)]],
              LAMBDA c : c.ok)

\* min(fit, key=first_item): the first element with the least fitness
FirstMin(cands) ==
    LET i == CHOOSE k \in 1..Len(cands) :
                 /\ \A j \in 1..Len(cands) : cands[k].fit <= cands[j].fit
                 /\ \A j \in 1..(k - 1) : cands[j].fit > cands[k].fit
    IN  cands[i]

\* faulty variant of select_position: the free rectangle is returned as the placement
select_position_free(b, w, h) ==
    LET fitn == Candidates(b.max_rects, w, h)
        fitr == IF b.rot THEN Candidates(b.max_rects, h, w) ELSE <<>>
        fit  == fitn \o fitr
    IN  IF fit = <<>> THEN <<>>
        ELSE LET c == FirstMin(fit)
             IN  << Rectangle(c.m.x, c.m.y, c.m.width, c.h), c.m >>

\* MaxRects._select_position: <<>> stands for (None, None)
select_position(b, w, h) ==
    LET fitn == Candidates(b.max_rects, w, h)
        fitr == IF b.rot THEN Candidates(b.max_rects, h, w) ELSE <<>>
        fit  == fitn \o fitr
    IN  IF fit = <<>> THEN <<>>
        ELSE LET c == FirstMin(fit)
             IN  << Rectangle(c.m.x, c.m.y, c.w, c.h), c.m >>

\* MaxRects._generate_splits(m, r)
generate_splits(m, r) ==
    (IF Left(r) > Left(m)
       THEN << Rectangle(Left(m), Bottom(m), Left(r) - Left(m), m.height) >>
       ELSE <<>>)
    \o (IF Right(r) < Right(m)
          THEN << Rectangle(Right(r), Bottom(m), Right(m) - Right(r), m.height) >>
          ELSE <<>>)
    \o (IF Top(r) < Top(m)
          THEN << Rectangle(Left(m), Top(r), m.width, Top(m) - Top(r)) >>
          ELSE <<>>)
    \o (IF Bottom(r) > Bottom(m)
          THEN << Rectangle(Left(m), Bottom(m), m.width, Bottom(r) - Bottom(m)) >>
          ELSE <<>>)

\* faulty variant of split: only a free rectangle that holds the whole placement is
\* split, the others it cuts into are kept
split_containing_only(max_rects, rect) ==
    Concat([i \in 1..Len(max_rects) |->
               IF contains(max_rects[i], rect)
                 THEN generate_splits(max_rects[i], rect)
                 ELSE << max_rects[i] >>])

\* MaxRects._split(rect): the new list of free rectangles
split(max_rects, rect) ==
    Concat([i \in 1..Len(max_rects) |->
               IF intersects(max_rects[i], rect)
                 THEN generate_splits(max_rects[i], rect)
                 ELSE << max_rects[i] >>])

\* MaxRects._remove_duplicates: drop every free rectangle contained in another
\* (itertools.combinations pairs; the contained one of a pair is dropped,
\* the second one when each contains the other)
remove_duplicates(max_rects) ==
    LET n == Len(max_rects)
        contained ==
            {max_rects[j] : j \in {j \in 1..n : \E i \in 1..(j - 1) :
                                       contains(max_rects[i], max_rects[j])}}
            \cup
            {max_rects[i] : i \in {i \in 1..n : \E j \in (i + 1)..n :
                                       /\ ~contains(max_rects[i], max_rects[j])
                                       /\ contains(max_rects[j], max_rects[i])}}
    IN  SelectSeq(max_rects, LAMBDA m : m \notin contained)

\* MaxRects.fitness(width, height), after its assert: ok is FALSE for None
fitness(b, w, h) ==
    LET sp == select_position(b, w, h)
    IN  IF sp = <<>> THEN [fit |-> 0, ok |-> FALSE]
        ELSE [fit |-> rect_fitness(sp[2], sp[1].width, sp[1].height), ok |-> TRUE]

\* MaxRects.add_rect(width, height, rid): the bin after the call; unchanged
\* when the rectangle does not fit (the call returns None)
bin_add_rect(b, w, h, rid) ==
    LET sp == select_position(b, w, h)
    IN  IF sp = <<>> THEN b
        ELSE [b EXCEPT
                !.max_rects = remove_duplicates(split(b.max_rects, sp[1])),
                !.rectangles = Append(b.rectangles,
                                      [x |-> sp[1].x, y |-> sp[1].y,
                                       width |-> sp[1].width,
                                       height |-> sp[1].height, rid |-> rid])]

\* faulty variant of fits_surface: one fitting side is taken for a fit
fits_surface_either(W, H, rot, width, height) ==
    LET swap == rot /\ (width > W \/ height > H)
        w == IF swap THEN height ELSE width
        h == IF swap THEN width ELSE height
    IN  ~ (w > W /\ h > H)

\* PackingAlgorithm._fits_surface(width, height), after its assert
fits_surface(W, H, rot, width, height) ==
    LET swap == rot /\ (width > W \/ height > H)
        w == IF swap THEN height ELSE width
        h == IF swap THEN width ELSE height
    IN  ~ (w > W \/ h > H)

-----------------------------------------------------------------------------
(* rectpack Packer (Offline mode, PackingBin.BBF) *)

\* SORT_AREA: sorted(rectlist, reverse=True, key=area).  The sort is stable:
\* an element comes after every element of larger area and after the earlier
\* elements of the same area
SORT_AREA(rectlist) ==
    LET n == Len(rectlist)
        area == [i \in 1..n |-> rectlist[i][1] * rectlist[i][2]]
        rank == [i \in 1..n |->
                    1 + Cardinality({j \in 1..n : area[j] > area[i]})
                      + Cardinality({j \in 1..(i - 1) : area[j] = area[i]})]
    IN  [k \in 1..n |-> rectlist[CHOOSE i \in 1..n : rank[i] = k]]

\* faulty variant of new_open_bin: a bin is opened although no factory is left
new_open_bin_nocap(p, w, h) ==
    IF ~fits_surface(p.W, p.H, p.rot, w, h) THEN p
    ELSE [p EXCEPT !.open_bins = Append(@, EmptyBin(p.W, p.H, p.rot)),
                   !.empty_bins = @ - 1]

\* PackerOnline._new_open_bin(width, height): the packer with one more open
\* bin, or unchanged (None) when no factory is left or the rectangle does not
\* fit an empty bin (BinFactory.fits_inside)
new_open_bin(p, w, h) ==
    IF p.empty_bins = 0 \/ ~fits_surface(p.W, p.H, p.rot, w, h) THEN p
    ELSE [p EXCEPT !.open_bins = Append(@, EmptyBin(p.W, p.H, p.rot)),
                   !.empty_bins = @ - 1]

\* the "while True" loop of PackerBBFMixin.add_rect over unopened bins
RECURSIVE add_to_new_bin(_, _, _, _)
add_to_new_bin(p, w, h, rid) ==
    LET p1 == new_open_bin(p, w, h)
    IN  IF p1 = p THEN [p |-> p, ok |-> FALSE]
        ELSE LET k  == Len(p1.open_bins)
                 nb == bin_add_rect(p1.open_bins[k], w, h, rid)
             IN  IF Len(nb.rectangles) > Len(p1.open_bins[k].rectangles)
                   THEN [p |-> [p1 EXCEPT !.open_bins[k] = nb], ok |-> TRUE]
                   ELSE add_to_new_bin(p1, w, h, rid)

\* the open bin PackerBBFMixin.add_rect picks: min(fit, key=first_item) over
\* ((b.fitness(width, height), b) for b in open_bins) without the None's;
\* 0 when there is none
best_bin(p, w, h) ==
    LET all == [i \in 1..Len(p.open_bins) |->
                   LET f == fitness(p.open_bins[i], w, h)
                   IN  [fit |-> f.fit, bin |-> i, ok |-> f.ok]]
        fit == SelectSeq(all, LAMBDA c : c.ok)
    IN  IF fit = <<>> THEN 0 ELSE FirstMin(fit).bin

\* faulty variant of packer_add_rect: the rectangle goes to the first open bin, not
\* to the best one
packer_add_rect_first(p, w, h, rid) ==
    LET b == best_bin(p, w, h)
    IN  IF b # 0
          THEN [p |-> [p EXCEPT !.open_bins[1] = bin_add_rect(@, w, h, rid)],
                ok |-> TRUE]
          ELSE add_to_new_bin(p, w, h, rid)

\* PackerBBFMixin.add_rect(width, height, rid)
packer_add_rect(p, w, h, rid) ==
    LET b == best_bin(p, w, h)
    IN  IF b # 0
          THEN [p |-> [p EXCEPT !.open_bins[b] = bin_add_rect(@, w, h, rid)],
                ok |-> TRUE]
          ELSE add_to_new_bin(p, w, h, rid)

\* assert(width > 0 and height > 0) in MaxRects.fitness (first open bin) or in
\* _fits_surface (first factory): reached unless there is neither
AssertFails(p, w, h) ==
    (w <= 0 \/ h <= 0) /\ (p.open_bins # <<>> \/ p.empty_bins > 0)

-----------------------------------------------------------------------------
(* Upload file processing: the text of a line after split(',') and strip() *)

\* a field that is an integer literal ("24"), a decimal literal ("24.0"),
\* or anything else ("Width", "")
I(n) == [kind |-> "int", val |-> n]
D(n) == [kind |-> "dec", val |-> n]
T    == [kind |-> "text", val |-> 0]

\* float(s) does not raise ValueError
ParsesFloat(t) == t.kind \in {"int", "dec"}
\* int(s) does not raise ValueError: int("24.0") does
ParsesInt(t) == t.kind = "int"

\* the lines uploaded files are made of; <<>> is a blank line
FileLines ==
    { <<>>,
      << T, T, T >>,
      << I(24) >>,
      << I(24), T >>,
      << I(36), I(24) >>,
      << D(24), D(36) >>,
      << I(0), I(24) >>,
      << I(100), I(100) >>,
      << I(36), I(24), I(2) >>,
      << I(24), I(36), I(-1) >>,
      << I(24), I(36), D(2) >> }

RECURSIVE SeqsUpTo(_, _)
SeqsUpTo(S, n) ==
    IF n = 0 THEN { <<>> }
    ELSE LET shorter == SeqsUpTo(S, n - 1)
         IN  shorter \cup {Append(s, x) : s \in shorter, x \in S}

Files == SeqsUpTo(FileLines, MaxLines)

\* one pass of the "for line in lines" loop body; st is
\* [cut_list, success_count, err]
process_line(st, parts) ==
    IF parts = <<>> THEN st                           \* if not line.strip()
    ELSE IF ~ParsesFloat(parts[1]) THEN st            \* ValueError: continue
    ELSE IF Len(parts) < 2 THEN [st EXCEPT !.err = "IndexError"]
    ELSE IF ~ParsesFloat(parts[2]) THEN st
    ELSE IF Len(parts) > 2 /\ ~ParsesInt(parts[3]) THEN st
    ELSE LET w   == parts[1].val
             h   == parts[2].val
             qty == IF Len(parts) > 2 THEN parts[3].val ELSE 1
         IN  [st EXCEPT !.cut_list = @ \o Repeat(<<w, h>>, qty),
                        !.success_count = @ + qty]

\* the loop over the lines; an uncaught exception ends it
RECURSIVE process_lines(_, _)
process_lines(st, lines) ==
    IF lines = <<>> \/ st.err # "none" THEN st
    ELSE process_lines(process_line(st, Head(lines)), Tail(lines))

\* the whole "Process Uploaded File" branch: the list is cleared first
process_file(lines) ==
    process_lines([cut_list |-> <<>>, success_count |-> 0, err |-> "none"], lines)

-----------------------------------------------------------------------------
(* draw_results and the main display's statistics *)

\* used_area of one bin
used_area(abin) ==
    SumSeq([i \in 1..Len(abin.rectangles) |->
               abin.rectangles[i].width * abin.rectangles[i].height])

\* "if len(abin) == 0: continue"
SkipBin(abin) == Len(abin.rectangles) = 0

\* summary_data of draw_results: one row per bin that is not skipped
summary_rows(p, SHEET_W, SHEET_H) ==
    LET idx == SelectSeq([i \in 1..Len(p.open_bins) |-> i],
                         LAMBDA i : ~SkipBin(p.open_bins[i]))
    IN  [k \in 1..Len(idx) |->
            [sheet |-> idx[k],
             items |-> Len(p.open_bins[idx[k]].rectangles),
             used_area |-> used_area(p.open_bins[idx[k]]),
             total_area |-> SHEET_W * SHEET_H]]

\* packed_items of the main display
packed_items(p) ==
    SumSeq([i \in 1..Len(p.open_bins) |-> Len(p.open_bins[i].rectangles)])

\* faulty variant of ShowSummary: the grand totals are computed unguarded
ShowSummary_always(summary_data) == TRUE

\* "if summary_data:" guarding the grand totals
ShowSummary(summary_data) == summary_data # <<>>

total_used_area(summary_data) ==
    SumSeq([i \in 1..Len(summary_data) |-> summary_data[i].used_area])

total_stock_area(summary_data) ==
    SumSeq([i \in 1..Len(summary_data) |-> summary_data[i].total_area])

\* the denominators of the divisions the run performs: total_area once per
\* row (utilization), total_stock_area once if the summary is shown
Denominators(summary_data) ==
    {summary_data[i].total_area : i \in 1..Len(summary_data)}
    \cup (IF ShowSummary(summary_data)
            THEN {total_stock_area(summary_data)} ELSE {})

NoResult ==
    [summary_data |-> <<>>, figures |-> 0, packed_items |-> 0,
     not_packed |-> 0, overall |-> <<>>]

\* what the main display shows after a run that raised nothing;
\* overall is <<100 * total_used_area, total_stock_area>> (a ratio) or <<>>
display(p, cuts, SHEET_W, SHEET_H) ==
    LET rows == summary_rows(p, SHEET_W, SHEET_H)
        n    == packed_items(p)
    IN  [summary_data |-> rows,
         figures |-> Len(rows),
         packed_items |-> n,
         not_packed |-> IF n < Len(cuts) THEN Len(cuts) - n ELSE 0,
         overall |-> IF ShowSummary(rows)
                       THEN << 100 * total_used_area(rows), total_stock_area(rows) >>
                       ELSE <<>>]

-----------------------------------------------------------------------------
(* The session *)

NoPacker ==
    [W |-> 0, H |-> 0, rot |-> ROTATION, open_bins |-> <<>>, empty_bins |-> 0,
     unplaced |-> {}, sorted_rect |-> <<>>]

\* solve_packing up to the start of pack()'s loop: no open bin, NUM_BINS
\* one-bin factories of the same size, the rectangles sorted; rids are
\* enumerate()'s.  unplaced records the rids for which add_rect returned
\* False (pack() discards the value).
solve_packing(cuts, SHEET_W, SHEET_H) ==
    [W |-> SHEET_W, H |-> SHEET_H, rot |-> ROTATION, open_bins |-> <<>>,
     empty_bins |-> NUM_BINS, unplaced |-> {},
     sorted_rect |-> SORT_AREA([i \in 1..Len(cuts) |->
                                   << cuts[i][1], cuts[i][2], i - 1 >>])]

\* the script is not in the middle of a run: the user can click
Ready == pc \in {"idle", "done", "error"}

Init ==
    /\ \E s \in SheetSizes : sheet_w = s[1] /\ sheet_h = s[2]
    /\ cut_list = <<>>
    /\ imported = <<>>
    /\ pc = "idle"
    /\ err = "none"
    /\ packer = NoPacker
    /\ result = NoResult

\* "Process Uploaded File"
ProcessUploadedFile(lines) ==
    LET st == process_file(lines)
    IN  /\ Ready
        /\ Len(st.cut_list) <= MaxCuts
        /\ cut_list' = st.cut_list
        /\ IF st.err = "none"
             THEN imported' = << st.success_count >> /\ pc' = "idle"
             ELSE imported' = <<>> /\ pc' = "error"
        /\ err' = st.err
        /\ packer' = NoPacker
        /\ result' = NoResult
        /\ UNCHANGED <<sheet_w, sheet_h>>

\* "Add Manual Piece": both inputs are capped by sheet_h
AddManualPiece(c_width, c_height, c_qty) ==
    /\ Ready
    /\ c_width >= 1 /\ c_width <= sheet_h
    /\ c_height >= 1 /\ c_height <= sheet_h
    /\ c_qty >= 1
    /\ Len(cut_list) + c_qty <= MaxCuts
    /\ cut_list' = cut_list \o Repeat(<<c_width, c_height>>, c_qty)
    /\ imported' = <<>>
    /\ pc' = "idle"
    /\ err' = "none"
    /\ packer' = NoPacker
    /\ result' = NoResult
    /\ UNCHANGED <<sheet_w, sheet_h>>

\* "Clear All", offered while the list is not empty
ClearAll ==
    /\ Ready
    /\ cut_list # <<>>
    /\ cut_list' = <<>>
    /\ imported' = <<>>
    /\ pc' = "idle"
    /\ err' = "none"
    /\ packer' = NoPacker
    /\ result' = NoResult
    /\ UNCHANGED <<sheet_w, sheet_h>>

\* "Calculate Optimization", offered while the list is not empty
Calculate ==
    /\ Ready
    /\ Len(cut_list) > 0
    /\ packer' = solve_packing(cut_list, sheet_w, sheet_h)
    /\ pc' = "packing"
    /\ err' = "none"
    /\ imported' = <<>>
    /\ result' = NoResult
    /\ UNCHANGED <<sheet_w, sheet_h, cut_list>>

\* one pass of pack()'s "for r in self._sorted_rect" loop
PackStep ==
    /\ pc = "packing"
    /\ packer.sorted_rect # <<>>
    /\ LET r == Head(packer.sorted_rect)
       IN  IF AssertFails(packer, r[1], r[2])
             THEN /\ pc' = "error"
                  /\ err' = "AssertionError"
                  /\ UNCHANGED packer
             ELSE LET res == packer_add_rect(packer, r[1], r[2], r[3])
                  IN  /\ packer' = [res.p EXCEPT
                                      !.sorted_rect = Tail(packer.sorted_rect),
                                      !.unplaced = IF res.ok THEN @ ELSE @ \cup {r[3]}]
                      /\ UNCHANGED <<pc, err>>
    /\ UNCHANGED <<sheet_w, sheet_h, cut_list, imported, result>>

\* pack() has returned: draw_results and the main display
Display ==
    /\ pc = "packing"
    /\ packer.sorted_rect = <<>>
    /\ LET shown == display(packer, cut_list, sheet_w, sheet_h)
       IN  IF 0 \in Denominators(shown.summary_data)
             THEN pc' = "error" /\ err' = "ZeroDivisionError" /\ result' = NoResult
             ELSE pc' = "done" /\ err' = "none" /\ result' = shown
    /\ UNCHANGED <<sheet_w, sheet_h, cut_list, imported, packer>>

Next ==
    \/ \E lines \in Files : ProcessUploadedFile(lines)
    \/ \E w \in ManualDims, h \in ManualDims, q \in 1..MaxQty : AddManualPiece(w, h, q)
    \/ ClearAll
    \/ Calculate
    \/ PackStep
    \/ Display

Spec == Init /\ [][Next]_vars

-----------------------------------------------------------------------------
(* The packing run on its own: the session starts with a cut list already   *)
(* ingested (any list of pairs can be uploaded)                             *)

\* the (width, height) pairs cut lists are drawn from: pieces of the manual
\* form's sizes, narrow and wide strips, a line "0, 24" and a piece larger than
\* every sheet
Pieces ==
    { <<60, 60>>, <<60, 36>>, <<36, 36>>, <<36, 24>>, <<24, 24>>,
      <<72, 24>>, <<84, 12>>, <<12, 24>>, <<0, 24>>, <<100, 100>> }

InitPack ==
    /\ \E s \in SheetSizes : sheet_w = s[1] /\ sheet_h = s[2]
    /\ cut_list \in SeqsUpTo(Pieces, MaxCuts)
    /\ imported = <<>>
    /\ pc = "idle"
    /\ err = "none"
    /\ packer = NoPacker
    /\ result = NoResult

NextPack ==
    \/ Calculate
    \/ PackStep
    \/ Display

PackSpec == InitPack /\ [][NextPack]_vars

\* cut lists long enough to use every bin: about NUM_BINS copies of one large
\* piece followed by at most one more piece
BulkPieces == { <<60, 60>>, <<60, 36>> }
BulkExtras == { <<>>, << <<24, 24>> >>, << <<36, 24>> >>, << <<100, 100>> >> }

InitBulk ==
    /\ \E s \in SheetSizes : sheet_w = s[1] /\ sheet_h = s[2]
    /\ \E big \in BulkPieces, k \in (NUM_BINS - Slack)..(NUM_BINS + Slack),
          extra \in BulkExtras :
              cut_list = Repeat(big, k) \o extra
    /\ imported = <<>>
    /\ pc = "idle"
    /\ err = "none"
    /\ packer = NoPacker
    /\ result = NoResult

BulkSpec == InitBulk /\ [][NextPack]_vars

-----------------------------------------------------------------------------
(* Views of a packing run used by the properties *)

\* the piece a rid stands for: enumerate() numbers the cut list from 0
PieceOf(rid) == cut_list[rid + 1]

Rids == 0..(Len(cut_list) - 1)

\* every placement of the run, tagged with its bin and its position in it
Placements ==
    UNION {{[bin |-> b, pos |-> i, rect |-> packer.open_bins[b].rectangles[i]] :
               i \in 1..Len(packer.open_bins[b].rectangles)} :
           b \in 1..Len(packer.open_bins)}

\* how often a rid is placed, and how often it still waits in pack()'s loop
PlacedCount(rid) == Cardinality({pl \in Placements : pl.rect.rid = rid})
QueuedCount(rid) ==
    Len(SelectSeq(packer.sorted_rect, LAMBDA r : r[3] = rid))
UnplacedCount(rid) == IF rid \in packer.unplaced THEN 1 ELSE 0

\* a placement whose dimensions are the piece's, swapped
Swapped(pl) ==
    /\ pl.rect.width = PieceOf(pl.rect.rid)[2]
    /\ pl.rect.height = PieceOf(pl.rect.rid)[1]
    /\ pl.rect.width # pl.rect.height

\* the piece fits an empty sheet in some orientation
FitsEmptySheet(rid) ==
    \/ PieceOf(rid)[1] <= sheet_w /\ PieceOf(rid)[2] <= sheet_h
    \/ PieceOf(rid)[2] <= sheet_w /\ PieceOf(rid)[1] <= sheet_h

InRun == pc \in {"packing", "done"}

-----------------------------------------------------------------------------
(* Properties *)

\* C1: conservation.  During and after pack() every input piece index is in
\* exactly one place: still queued, placed once on one sheet, or unplaced;
\* after the run nothing is queued, so placed + unplaced = input, and the
\* "could not be packed" count the application shows is the number unplaced.
C1_Conservation ==
    /\ InRun => \A rid \in Rids :
                    PlacedCount(rid) + UnplacedCount(rid) + QueuedCount(rid) = 1
    /\ InRun => packer.unplaced \subseteq Rids
    /\ InRun => \A pl \in Placements : pl.rect.rid \in Rids
    /\ pc = "done" =>
          /\ packer.sorted_rect = <<>>
          /\ result.packed_items = Cardinality(Placements)
          /\ result.packed_items + Cardinality(packer.unplaced) = Len(cut_list)
          /\ result.not_packed = Cardinality(packer.unplaced)

\* C1 witness: a finished run that placed some pieces and left others unplaced
C1_Witness ==
    /\ pc = "done"
    /\ packer.unplaced # {}
    /\ Cardinality(Placements) >= 2
    /\ result.not_packed >= 1

\* C2: no overlap.  In every state of a run, two distinct placements on the
\* same sheet share no interior (their intersection has zero area).
C2_NoOverlap ==
    \A p1 \in Placements, p2 \in Placements :
        (p1.bin = p2.bin /\ p1.pos # p2.pos) => OverlapArea(p1.rect, p2.rect) = 0

\* C2 witness: a sheet holding three pieces, two of them touching along an edge
C2_Witness ==
    \E p1 \in Placements, p2 \in Placements, p3 \in Placements :
        /\ p1.bin = p2.bin /\ p2.bin = p3.bin
        /\ p1.pos < p2.pos /\ p2.pos < p3.pos
        /\ Right(p1.rect) = Left(p2.rect)
        /\ Bottom(p1.rect) < Top(p2.rect) /\ Bottom(p2.rect) < Top(p1.rect)

\* C3: bounds.  Every placement lies inside its sheet, in either orientation.
C3_InBounds ==
    \A pl \in Placements :
        /\ 0 <= pl.rect.x
        /\ 0 <= pl.rect.y
        /\ pl.rect.x + pl.rect.width <= sheet_w
        /\ pl.rect.y + pl.rect.height <= sheet_h

\* C3 witness: a swapped piece placed away from the origin and reaching the
\* far edge of its sheet
C3_Witness ==
    \E pl \in Placements :
        /\ Swapped(pl)
        /\ pl.rect.x > 0
        /\ pl.rect.x + pl.rect.width = sheet_w

C6_AllPositive ==
    \A i \in 1..Len(cut_list) : cut_list[i][1] > 0 /\ cut_list[i][2] > 0

\* C7: every sheet of a run, and every row and diagram shown, holds at least
\* one placement; nothing placed means no sheet; a piece larger than the sheet
\* in both orientations ends unplaced.
C7_NoEmptySheet ==
    /\ \A b \in 1..Len(packer.open_bins) :
           Len(packer.open_bins[b].rectangles) >= 1
    /\ \A k \in 1..Len(result.summary_data) : result.summary_data[k].items >= 1
    /\ pc = "done" =>
          /\ result.figures = Len(packer.open_bins)
          /\ Len(result.summary_data) = Len(packer.open_bins)
          /\ result.packed_items = 0 => result.figures = 0
          /\ \A rid \in Rids : ~FitsEmptySheet(rid) => rid \in packer.unplaced

\* C7 witness: a finished run in which every piece exceeds the sheet: no
\* sheet, no row, all pieces unplaced
C7_Witness ==
    /\ pc = "done"
    /\ packer.open_bins = <<>>
    /\ result.summary_data = <<>>
    /\ Cardinality(packer.unplaced) = Len(cut_list)
    /\ Len(cut_list) >= 2

\* C9: the statistics never divide by zero: every denominator of a finished
\* pack() is positive, no run ends in ZeroDivisionError, and with zero sheets
\* no overall utilization is computed.
C9_NoDivisionByZero ==
    /\ err # "ZeroDivisionError"
    /\ (pc = "packing" /\ packer.sorted_rect = <<>>) =>
           \A d \in Denominators(summary_rows(packer, sheet_w, sheet_h)) : d > 0
    /\ pc = "done" =>
          /\ \A k \in 1..Len(result.summary_data) :
                 result.summary_data[k].total_area > 0
          /\ result.summary_data = <<>> => result.overall = <<>>
          /\ result.summary_data # <<>> => result.overall[2] > 0

\* C9 witness: a finished run with zero sheets and empty statistics
C9_Witness ==
    /\ pc = "done"
    /\ err = "none"
    /\ result.summary_data = <<>>
    /\ result.overall = <<>>
    /\ packer.unplaced # {}

\* the claim's reading of an upload: the quantity-expanded pairs of the
\* parseable lines (numeric width and height, integer quantity if present)
Parseable(parts) ==
    /\ Len(parts) >= 2
    /\ ParsesFloat(parts[1]) /\ ParsesFloat(parts[2])
    /\ Len(parts) > 2 => ParsesInt(parts[3])

ExpandedPairs(lines) ==
    Concat([i \in 1..Len(lines) |->
               IF Parseable(lines[i])
                 THEN Repeat(<< lines[i][1].val, lines[i][2].val >>,
                             IF Len(lines[i]) > 2 THEN lines[i][3].val ELSE 1)
                 ELSE <<>>])

\* C10: whenever "Process Uploaded File" reports "Imported N pieces", the cut
\* list is, whatever it held before, exactly the expanded pairs of the file's
\* parseable lines in file order, and N is the length of that list.
C10_UploadReplaces ==
    [][\A lines \in Files :
          (ProcessUploadedFile(lines) /\ imported' # <<>>) =>
              /\ cut_list' = ExpandedPairs(lines)
              /\ imported' = << Len(cut_list') >>]_vars

====
